---- MODULE Spec2Model ----
(***************************************************************************)
(* DAIMON Claude Code watcher (collectors/claude_watcher.py): the poll     *)
(* loop, the per-file checkpoint table, line classification and the        *)
(* fire-and-forget dispatch of events.                                     *)
(*                                                                         *)
(* Text is a sequence of one-character strings.  A monitored file is a     *)
(* sequence of bytes; every JSONL line is two bytes long in the model: its *)
(* first half and its second half, the second half ending in the newline,  *)
(* so that a writer can be observed between the two halves of a line.      *)
(*                                                                         *)
(* The pure functions of the package are called one at a time: the         *)
(* classifiers of the watcher (detect_intention, extract_files_touched),   *)
(* analyze_prompt of endpoints/quick_check.py, and the HTTP helpers and    *)
(* noesis_precedent of integrations/mcp_server.py.                         *)
(***************************************************************************)
EXTENDS Integers, Sequences, FiniteSets, TLC

\* ------------------------------------------------------------------ bounds
MaxBytes == 4
MaxWrites == 2
MaxPasses == 2
MaxRestarts == 1
MaxValid == 3
MaxWords == 2
MaxTokens == 11
MaxPrecedents == 11
MaxLimit == 11
MaxIdLen == 9
MaxMinutes == 31
MaxFilesChanged == 6

\* --------------------------------------------------------- program constants
POLL_INTERVAL_SECONDS == 5
MaxFilesTouched == 10

\* ------------------------------------------------------------------- text
UpperCase == <<"A","B","C","D","E","F","G","H","I","J","K","L","M","N","O","P","Q","R","S","T","U","V","W","X","Y","Z">>

LowerCase == <<"a","b","c","d","e","f","g","h","i","j","k","l","m","n","o","p","q","r","s","t","u","v","w","x","y","z">>

\* the three quote characters of the first path pattern, written by name
Apostrophe == "APOSTROPHE"
QuotationMark == "QUOTATION MARK"
GraveAccent == "GRAVE ACCENT"
Quotes == {Apostrophe, QuotationMark, GraveAccent}
Digits == {"0", "1", "2", "3", "4", "5", "6", "7", "8", "9"}

Range(s) == {s[i] : i \in 1..Len(s)}

IsLetter(c) == c \in Range(UpperCase) \cup Range(LowerCase)
IsWord(c) == IsLetter(c) \/ c \in Digits \/ c = "_"
IsSpace(c) == c = " "
IsQuote(c) == c \in Quotes

\* str.lower() of one character, then of a text
ToLower(c) ==
  IF c \in Range(UpperCase)
    THEN LowerCase[CHOOSE i \in 1..Len(UpperCase) : UpperCase[i] = c]
    ELSE c

str_lower(s) == [i \in 1..Len(s) |-> ToLower(s[i])]

\* the Python test (kw in s) on strings: kw occurs as a contiguous substring
Contains(kw, s) ==
  \E i \in 0..(Len(s) - Len(kw)) : SubSeq(s, i + 1, i + Len(kw)) = kw

\* the dict literal, in its insertion order (the order .items() iterates in)
INTENT_PATTERNS ==
  << [intent |-> "create", keywords |->
        << <<"c","r","e","a","t","e">>,
           <<"a","d","d">>,
           <<"i","m","p","l","e","m","e","n","t">>,
           <<"b","u","i","l","d">>,
           <<"m","a","k","e">>,
           <<"g","e","n","e","r","a","t","e">>,
           <<"w","r","i","t","e">> >>],
     [intent |-> "fix", keywords |->
        << <<"f","i","x">>,
           <<"b","u","g">>,
           <<"e","r","r","o","r">>,
           <<"b","r","o","k","e","n">>,
           <<"i","s","s","u","e">>,
           <<"p","r","o","b","l","e","m">>,
           <<"c","r","a","s","h">> >>],
     [intent |-> "refactor", keywords |->
        << <<"r","e","f","a","c","t","o","r">>,
           <<"c","l","e","a","n">>,
           <<"r","e","o","r","g","a","n","i","z","e">>,
           <<"r","e","s","t","r","u","c","t","u","r","e">>,
           <<"i","m","p","r","o","v","e">> >>],
     [intent |-> "understand", keywords |->
        << <<"e","x","p","l","a","i","n">>,
           <<"w","h","a","t">>,
           <<"h","o","w">>,
           <<"w","h","y">>,
           <<"u","n","d","e","r","s","t","a","n","d">>,
           <<"h","e","l","p"," ","m","e">> >>],
     [intent |-> "delete", keywords |->
        << <<"d","e","l","e","t","e">>,
           <<"r","e","m","o","v","e">>,
           <<"d","r","o","p">>,
           <<"d","e","s","t","r","o","y">>,
           <<"c","l","e","a","n"," ","u","p">> >>],
     [intent |-> "test", keywords |->
        << <<"t","e","s","t">>,
           <<"v","e","r","i","f","y">>,
           <<"c","h","e","c","k">>,
           <<"v","a","l","i","d","a","t","e">>,
           <<"c","o","v","e","r","a","g","e">> >>],
     [intent |-> "deploy", keywords |->
        << <<"d","e","p","l","o","y">>,
           <<"r","e","l","e","a","s","e">>,
           <<"p","r","o","d","u","c","t","i","o","n">>,
           <<"p","u","b","l","i","s","h">>,
           <<"s","h","i","p">> >>] >>

MatchingIntents(message_lower) ==
  {i \in 1..Len(INTENT_PATTERNS) :
     \E j \in 1..Len(INTENT_PATTERNS[i].keywords) :
        Contains(INTENT_PATTERNS[i].keywords[j], message_lower)}

MinOf(S) == CHOOSE x \in S : \A y \in S : x <= y
MaxOf(S) == CHOOSE x \in S : \A y \in S : x >= y

\* detect_intention that lets the last matching entry of the table win
detect_intention_last_entry(message) ==
  LET message_lower == str_lower(message)
      hits == MatchingIntents(message_lower)
  IN  IF hits = {} THEN "unknown" ELSE INTENT_PATTERNS[MaxOf(hits)].intent

detect_intention(message) ==
  LET message_lower == str_lower(message)
      hits == MatchingIntents(message_lower)
  IN  IF hits = {} THEN "unknown" ELSE INTENT_PATTERNS[MinOf(hits)].intent

\* --- re.findall over the first pattern: a quote, one or more non-quotes
\* ending in "." and 2..4 letters, a quote (the group is what is between)
\* The match that starts at the quote s[i] ends at the first later quote q,
\* with ".": 2..4 letters right before q and at least one character before
\* the ".".  The result is q, or 0 when nothing matches at i.
NextQuote(s, i) ==
  LET qs == {q \in (i + 1)..Len(s) : IsQuote(s[q])}
  IN  IF qs = {} THEN 0 ELSE MinOf(qs)

QuotedMatchEnd(s, i) ==
  IF i > Len(s) \/ ~IsQuote(s[i]) THEN 0
  ELSE LET q == NextQuote(s, i)
       IN  IF q = 0 THEN 0
           ELSE IF \E n \in 2..4 :
                      /\ q - n - 1 > i + 1
                      /\ s[q - n - 1] = "."
                      /\ \A j \in (q - n)..(q - 1) : IsLetter(s[j])
                  THEN q ELSE 0

\* the scan goes on from i to the first position a match starts at, takes
\* the match, and goes on behind it
RECURSIVE FindQuoted(_, _)
FindQuoted(s, i) ==
  LET starts == {k \in i..Len(s) : QuotedMatchEnd(s, k) # 0}
  IN  IF starts = {} THEN <<>>
      ELSE LET k == MinOf(starts)
               q == QuotedMatchEnd(s, k)
           IN  <<SubSeq(s, k + 1, q - 1)>> \o FindQuoted(s, q + 1)

\* --- re.findall over the second pattern: non-blanks, ".", 2..4 letters and
\* a word boundary
\* \S+ is greedy: of the "." positions k inside the run of non-blanks that
\* starts at i the last one wins, then the longest run of 2..4 letters that
\* ends at a word boundary.  The result is the index of the last character
\* of the match, or 0.
RunEnd(s, i) ==
  LET stops == {r \in i..Len(s) : IsSpace(s[r])}
  IN  IF stops = {} THEN Len(s) + 1 ELSE MinOf(stops)

UnquotedEnds(s, i) ==
  {<<k, n>> \in ((i + 1)..(RunEnd(s, i) - 1)) \X (2..4) :
     /\ s[k] = "."
     /\ k + n <= Len(s)
     /\ \A j \in (k + 1)..(k + n) : IsLetter(s[j])
     /\ (k + n = Len(s) \/ ~IsWord(s[k + n + 1]))}

UnquotedMatchEnd(s, i) ==
  IF i > Len(s) \/ IsSpace(s[i]) THEN 0
  ELSE LET ends == UnquotedEnds(s, i)
       IN  IF ends = {} THEN 0
           ELSE LET k == MaxOf({e[1] : e \in ends})
                    n == MaxOf({e[2] : e \in {x \in ends : x[1] = k}})
                IN  k + n

RECURSIVE FindUnquoted(_, _)
FindUnquoted(s, i) ==
  LET starts == {k \in i..Len(s) : UnquotedMatchEnd(s, k) # 0}
  IN  IF starts = {} THEN <<>>
      ELSE LET k == MinOf(starts)
               e == UnquotedMatchEnd(s, k)
           IN  <<SubSeq(s, k, e)>> \o FindUnquoted(s, e + 1)

\* files.extend(matches) for the two patterns, in that order
FoundFiles(message) == FindQuoted(message, 1) \o FindUnquoted(message, 1)

\* the generator: f for f in files if f holds a slash or a dot
KeptFiles(files) ==
  SelectSeq(files, LAMBDA f : Contains(<<"/">>, f) \/ Contains(<<".">>, f))

\* list(set(...)): every element once, in the iteration order of the set,
\* which depends on the string hashes of the process.  Two orders CPython
\* produces for a two-element set are modelled: the elements in the order of
\* their first insertion, and that order reversed (a slot collision).
HashOrders == {"first_in", "last_in"}

RECURSIVE Dedup(_)
Dedup(s) ==
  IF s = <<>> THEN <<>>
  ELSE LET rest == Dedup(SubSeq(s, 1, Len(s) - 1))
       IN  IF s[Len(s)] \in Range(rest) THEN rest ELSE Append(rest, s[Len(s)])

Reverse(s) == [i \in 1..Len(s) |-> s[Len(s) + 1 - i]]

list_of_set(order, s) ==
  IF order = "first_in" THEN Dedup(s) ELSE Reverse(Dedup(s))

Take(s, n) == SubSeq(s, 1, IF Len(s) < n THEN Len(s) ELSE n)

\* extract_files_touched without the set: list(files)[:10]
extract_files_touched_no_set(order, message) ==
  Take(KeptFiles(FoundFiles(message)), MaxFilesTouched)

extract_files_touched(order, message) ==
  Take(list_of_set(order, KeptFiles(FoundFiles(message))), MaxFilesTouched)

\* ------------------------------------------------------ lines and files
\* What json.loads makes of a line, as far as the watcher looks at it:
\* json is "object", "array" (valid JSON that is no object), "blank"
\* (whitespace only) or "invalid"; role and content are the two keys read.
\* ctype "str" is a string content, "number" a JSON number held in content.
UserLine(body) ==
  [json |-> "object", role |-> "user", ctype |-> "str", content |-> body]
AssistantLine(body) ==
  [json |-> "object", role |-> "assistant", ctype |-> "str", content |-> body]
NumberLine(n) ==
  [json |-> "object", role |-> "user", ctype |-> "number", content |-> <<n>>]
ArrayLine == [json |-> "array", role |-> "", ctype |-> "str", content |-> <<>>]
GarbageLine == [json |-> "invalid", role |-> "", ctype |-> "str", content |-> <<>>]
BlankLine == [json |-> "blank", role |-> "", ctype |-> "str", content |-> <<>>]

\* message bodies the writers of the model use
BodyAB == <<"f","i","x"," ","a",".","p","y"," ","b",".","p","y">>
BodyBA == <<"f","i","x"," ","b",".","p","y"," ","a",".","p","y">>
BodyBug == <<"b","u","g"," ","a",".","p","y"," ","b",".","p","y">>
Bodies == {BodyAB, BodyBA, BodyBug}

WriterLines ==
  {UserLine(BodyAB), AssistantLine(BodyAB), GarbageLine, ArrayLine}

\* the lines a log may hold when the daemon starts
BatchLines ==
  {UserLine(b) : b \in Bodies}
    \cup {UserLine(<<>>), NumberLine(0), NumberLine(5), AssistantLine(BodyAB),
          ArrayLine, GarbageLine, BlankLine}

\* the two bytes of a line; the second one ends in the newline
Encode(l) == <<[rec |-> l, half |-> 1], [rec |-> l, half |-> 2]>>

Paths == {"alpha/sessions/s.jsonl", "beta/sessions/s.jsonl"}
ProjectOf(path) == IF path = "alpha/sessions/s.jsonl" THEN "alpha" ELSE "beta"

\* f.readlines(): the bytes cut after every newline, the rest as a last line
RECURSIVE SplitLines(_, _)
SplitLines(bytes, acc) ==
  IF bytes = <<>> THEN (IF acc = <<>> THEN <<>> ELSE <<acc>>)
  ELSE IF Head(bytes).half = 2
         THEN <<Append(acc, Head(bytes))>> \o SplitLines(Tail(bytes), <<>>)
         ELSE SplitLines(Tail(bytes), Append(acc, Head(bytes)))

readlines(bytes) == SplitLines(bytes, <<>>)

IsBlankByte(b) == b.rec.json = "blank"

\* str.strip(): leading and trailing whitespace (the newline included) goes
RECURSIVE lstrip(_)
lstrip(line) ==
  IF line # <<>> /\ IsBlankByte(Head(line)) THEN lstrip(Tail(line)) ELSE line

RECURSIVE rstrip(_)
rstrip(line) ==
  IF line # <<>> /\ IsBlankByte(line[Len(line)])
    THEN rstrip(SubSeq(line, 1, Len(line) - 1)) ELSE line

strip(line) == rstrip(lstrip(line))

\* json.loads(line): the value of a complete line, GarbageLine standing for
\* json.JSONDecodeError (half a line, two halves that are not one line, or a
\* line that never was JSON)
json_loads(line) ==
  IF /\ Len(line) = 2
     /\ line[1].half = 1 /\ line[2].half = 2
     /\ line[1].rec = line[2].rec
     /\ line[1].rec.json \in {"object", "array"}
    THEN line[1].rec
    ELSE GarbageLine

\* a line that _process_entry turns into an event: a JSON object of role
\* "user" with a non-empty string as content
IsUserMessage(raw) ==
  LET entry == json_loads(strip(raw))
  IN  /\ entry.json = "object"
      /\ entry.role = "user"
      /\ entry.ctype = "str"
      /\ entry.content # <<>>

\* dict.get(key, default)
Get(d, k, default) == IF k \in DOMAIN d THEN d[k] ELSE default

\* ------------------------------------------------------------------ state
VARIABLES
  file,             \* path -> the bytes of the file on disk
  positions,        \* SessionTracker.positions
  session_events,   \* SessionTracker.session_events
  pc,               \* where run_daemon is: files, open, lines, send, sleep,
                    \* stopped (returned), crashed (left by an exception)
  todo,             \* files of this pass that scan_projects has not reached
  file_path,        \* _process_file: the file being processed
  warned,           \* _process_file: this call logged the OSError warning
  current_pos,      \* _process_file: the checkpoint read at entry
  new_lines,        \* _process_file: the lines not yet looped over
  cancelRequested,  \* the task was cancelled and has not yet been told
  exit,             \* the exception that ended run_daemon, and where
  now,              \* the wall clock, in seconds
  httpx,            \* whether "import httpx" succeeds in this installation
  hash_order,       \* the set iteration order of this process
  attempts,         \* calls of _send_event by this process, with their result
  classified,       \* the body behind each entry of session_events
  reads,            \* path -> every readlines() of it so far: the offsets
                    \* it began and ended at, the user messages among its
                    \* lines, the run of the daemon and the time of the pass
  shrunk,           \* path -> the file was truncated at some time
  writes,           \* writer steps so far
  restarts,         \* restarts of the daemon so far
  call,             \* a call of one of the package's functions: its name
                    \* and its arguments
  returned          \* what the call returned or raised, once it has

vars ==
  <<file, positions, session_events, pc, todo, file_path, warned,
    current_pos, new_lines, cancelRequested, exit, now, httpx, hash_order, attempts,
    classified, reads, shrunk, writes, restarts, call, returned>>

fileVars == <<file, shrunk, writes>>
trackerVars == <<positions, session_events, attempts, classified, reads>>
localVars == <<file_path, warned, current_pos, new_lines>>
callVars == <<call, returned>>
procVars ==
  <<cancelRequested, exit, now, httpx, hash_order, restarts, callVars>>

EmptyDict == [k \in {} |-> 0]
NoExit == [exc |-> "none", at |-> "none"]
NoCall == [fn |-> "none"]
NotReturned == [kind |-> "none"]
AnyPath == CHOOSE p \in Paths : TRUE

\* SessionTracker.__init__ and the first iteration of the loop of run_daemon.
\* The first run has the set order "first_in"; a restarted daemon draws its
\* own, and InitBatch draws both.
Init ==
  /\ file = [p \in Paths |-> <<>>]
  /\ positions = EmptyDict
  /\ session_events = <<>>
  /\ pc = "files"
  /\ todo = Paths
  /\ file_path = AnyPath
  /\ warned = FALSE
  /\ current_pos = 0
  /\ new_lines = <<>>
  /\ cancelRequested = FALSE
  /\ exit = NoExit
  /\ now = 0
  /\ httpx \in BOOLEAN
  /\ hash_order = "first_in"
  /\ attempts = <<>>
  /\ classified = <<>>
  /\ reads = [p \in Paths |-> <<>>]
  /\ shrunk = [p \in Paths |-> FALSE]
  /\ writes = 0
  /\ restarts = 0
  /\ call = NoCall
  /\ returned = NotReturned

\* ------------------------------------------------- the scanner, step by step
Alive == pc \notin {"stopped", "crashed"}

\* where control goes when a line, or a file, is done: the next line, the
\* next file of scan_projects, or asyncio.sleep once the pass is over
Continue(lines, files) ==
  IF lines # <<>> THEN "lines" ELSE IF files # {} THEN "files" ELSE "sleep"

\* an exception nothing in run_daemon catches ends the daemon
Raise(exc) ==
  /\ pc' = "crashed"
  /\ exit' = [exc |-> exc, at |-> pc]

\* StatFile with a reset added: a file shorter than its checkpoint is read
\* again from offset 0
StatFile_resets ==
  /\ pc = "files"
  /\ \E path \in todo, stat_ok \in BOOLEAN :
       LET pos == Get(positions, path, 0)
           file_size == Len(file[path])
           left == todo \ {path}
       IN  /\ todo' = left
           /\ file_path' = path
           /\ warned' = ~stat_ok
           /\ current_pos' = IF file_size < pos THEN 0 ELSE pos
           /\ pc' = IF stat_ok /\ file_size # pos
                      THEN "open" ELSE Continue(<<>>, left)
  /\ UNCHANGED <<fileVars, trackerVars, new_lines, procVars>>

\* StatFile over a listing that yields a file again within the pass
StatFile_keeps_todo ==
  /\ pc = "files"
  /\ \E path \in todo, stat_ok \in BOOLEAN, again \in BOOLEAN :
       LET pos == Get(positions, path, 0)
           file_size == Len(file[path])
           left == IF again THEN todo ELSE todo \ {path}
       IN  /\ todo' = left
           /\ file_path' = path
           /\ warned' = ~stat_ok
           /\ current_pos' = pos
           /\ pc' = IF stat_ok /\ ~(file_size <= pos)
                      THEN "open" ELSE Continue(<<>>, left)
  /\ UNCHANGED <<fileVars, trackerVars, new_lines, procVars>>

\* StatFile that returns early only for a file shorter than its checkpoint
StatFile_opens_equal ==
  /\ pc = "files"
  /\ \E path \in todo, stat_ok \in BOOLEAN :
       LET pos == Get(positions, path, 0)
           file_size == Len(file[path])
           left == todo \ {path}
       IN  /\ todo' = left
           /\ file_path' = path
           /\ warned' = ~stat_ok
           /\ current_pos' = pos
           /\ pc' = IF stat_ok /\ ~(file_size < pos)
                      THEN "open" ELSE Continue(<<>>, left)
  /\ UNCHANGED <<fileVars, trackerVars, new_lines, procVars>>

\* _process_file up to the size test: the checkpoint, stat(), early return.
\* stat() of a file that is gone or unreadable raises OSError, which the
\* handler of _process_file logs.
StatFile ==
  /\ pc = "files"
  /\ \E path \in todo, stat_ok \in BOOLEAN :
       LET pos == Get(positions, path, 0)
           file_size == Len(file[path])
           left == todo \ {path}
       IN  /\ todo' = left
           /\ file_path' = path
           /\ warned' = ~stat_ok
           /\ current_pos' = pos
           /\ pc' = IF stat_ok /\ ~(file_size <= pos)
                      THEN "open" ELSE Continue(<<>>, left)
  /\ UNCHANGED <<fileVars, trackerVars, new_lines, procVars>>

\* tell as a count of lines instead of a byte offset
tell_counts_lines(bytes, pos) ==
  pos + Len(readlines(SubSeq(bytes, pos + 1, Len(bytes))))

\* f.tell() after seek(current_pos) and readlines(): the end of the file, or
\* current_pos itself when the file has become shorter than that
tell(bytes, pos) == IF Len(bytes) < pos THEN pos ELSE Len(bytes)

\* ReadFile without the handler: the OSError of open() leaves _process_file
ReadFile_raises ==
  /\ pc = "open"
  /\ \E open_ok \in BOOLEAN :
       IF open_ok
         THEN LET bytes == file[file_path]
                  lines == readlines(SubSeq(bytes, current_pos + 1, Len(bytes)))
                  end == tell(bytes, current_pos)
                  users == Len(SelectSeq(lines, IsUserMessage))
              IN  /\ positions' =
                       [k \in DOMAIN positions \cup {file_path} |->
                          IF k = file_path THEN end ELSE positions[k]]
                  /\ new_lines' = lines
                  /\ reads' = [reads EXCEPT ![file_path] =
                                 Append(@, [lo |-> current_pos, hi |-> end,
                                            users |-> users,
                                            run |-> restarts, at |-> now])]
                  /\ pc' = Continue(lines, todo)
                  /\ warned' = FALSE
                  /\ exit' = exit
         ELSE /\ Raise("OSError")
              /\ warned' = TRUE
              /\ UNCHANGED <<positions, new_lines, reads>>
  /\ UNCHANGED <<fileVars, session_events, attempts, classified, todo,
                 file_path, current_pos, cancelRequested, now, httpx,
                 hash_order, restarts, callVars>>

\* open, seek, readlines, and the checkpoint set to f.tell()
ReadFile ==
  /\ pc = "open"
  /\ \E open_ok \in BOOLEAN :
       IF open_ok
         THEN LET bytes == file[file_path]
                  lines == readlines(SubSeq(bytes, current_pos + 1, Len(bytes)))
                  end == tell(bytes, current_pos)
                  users == Len(SelectSeq(lines, IsUserMessage))
              IN  /\ positions' =
                       [k \in DOMAIN positions \cup {file_path} |->
                          IF k = file_path THEN end ELSE positions[k]]
                  /\ new_lines' = lines
                  /\ reads' = [reads EXCEPT ![file_path] =
                                 Append(@, [lo |-> current_pos, hi |-> end,
                                            users |-> users,
                                            run |-> restarts, at |-> now])]
                  /\ pc' = Continue(lines, todo)
                  /\ warned' = FALSE
         ELSE /\ pc' = Continue(<<>>, todo)
              /\ warned' = TRUE
              /\ UNCHANGED <<positions, new_lines, reads>>
  /\ UNCHANGED <<fileVars, session_events, attempts, classified, todo,
                 file_path, current_pos, procVars>>

\* one more event, with a key holding the body
MakeEvent_keeps_content(content, project, order, time) ==
  LET intention == detect_intention(content)
      files_touched == extract_files_touched(order, content)
  IN  [event_type |-> intention,
       timestamp |-> time,
       project |-> project,
       files_touched |-> files_touched,
       intention |-> intention,
       content |-> content]

\* the event _process_entry builds from a user message
MakeEvent(content, project, order, time) ==
  LET intention == detect_intention(content)
      files_touched == extract_files_touched(order, content)
  IN  [event_type |-> intention,
       timestamp |-> time,
       project |-> project,
       files_touched |-> files_touched,
       intention |-> intention]

\* the events of the bodies of the model, computed once
EventOf ==
  [b \in Bodies |->
     [o \in HashOrders |-> MakeEvent(b, "", o, 0)]]

BuildEvent(content, project, order, time) ==
  [EventOf[content][order] EXCEPT !.project = project, !.timestamp = time]

\* SendEvent as a task of its own: the line loop goes on while the post waits
SendEvent_detached(n, rest) ==
  /\ attempts' = Append(attempts, [n |-> n, result |->
                                     IF httpx THEN "pending" ELSE "ImportError"])
  /\ pc' = Continue(rest, todo)
  /\ exit' = exit

\* _send_event up to its first suspension: without httpx the ImportError is
\* caught on the spot, with it the coroutine waits in client.post
SendEvent(n, rest) ==
  IF httpx
    THEN /\ attempts' = Append(attempts, [n |-> n, result |-> "pending"])
         /\ pc' = "send"
         /\ exit' = exit
    ELSE /\ attempts' = Append(attempts, [n |-> n, result |-> "ImportError"])
         /\ pc' = Continue(rest, todo)
         /\ exit' = exit

\* ProcessEntry without the test of the role
ProcessEntry_any_role(entry, rest) ==
  IF entry.json # "object"
    THEN /\ Raise("AttributeError")
         /\ UNCHANGED <<session_events, attempts, classified>>
  ELSE IF entry.content = <<>>
         \/ (entry.ctype = "number" /\ entry.content = <<0>>)
    THEN /\ pc' = Continue(rest, todo)
         /\ UNCHANGED <<session_events, attempts, classified, exit>>
  ELSE IF entry.ctype # "str"
    THEN /\ Raise("AttributeError")
         /\ UNCHANGED <<session_events, attempts, classified>>
  ELSE /\ session_events' =
            Append(session_events,
                   BuildEvent(entry.content, ProjectOf(file_path),
                              hash_order, now))
       /\ classified' = Append(classified, entry.content)
       /\ SendEvent(Len(session_events) + 1, rest)

\* _process_entry on a parsed object
ProcessEntry(entry, rest) ==
  IF entry.json # "object"
    THEN \* entry.get of a value that is no dict: AttributeError
         /\ Raise("AttributeError")
         /\ UNCHANGED <<session_events, attempts, classified>>
  ELSE IF entry.role # "user" \/ entry.content = <<>>
         \/ (entry.ctype = "number" /\ entry.content = <<0>>)
    THEN /\ pc' = Continue(rest, todo)
         /\ UNCHANGED <<session_events, attempts, classified, exit>>
  ELSE IF entry.ctype # "str"
    THEN \* message.lower() of a value that is no str: AttributeError
         /\ Raise("AttributeError")
         /\ UNCHANGED <<session_events, attempts, classified>>
  ELSE /\ session_events' =
            Append(session_events,
                   BuildEvent(entry.content, ProjectOf(file_path),
                              hash_order, now))
       /\ classified' = Append(classified, entry.content)
       /\ SendEvent(Len(session_events) + 1, rest)

\* ProcessLine that gives the batch up at a line json.loads rejects
ProcessLine_aborts ==
  /\ pc = "lines"
  /\ LET line == strip(Head(new_lines))
         rest == Tail(new_lines)
         entry == json_loads(line)
     IN  IF line # <<>> /\ entry.json = "invalid"
           THEN /\ new_lines' = <<>>
                /\ pc' = Continue(<<>>, todo)
                /\ UNCHANGED <<session_events, attempts, classified, exit>>
           ELSE /\ new_lines' = rest
                /\ IF line = <<>>
                     THEN /\ pc' = Continue(rest, todo)
                          /\ UNCHANGED <<session_events, attempts,
                                         classified, exit>>
                     ELSE ProcessEntry(entry, rest)
  /\ UNCHANGED <<fileVars, positions, reads, todo, file_path, warned,
                 current_pos, cancelRequested, now, httpx, callVars, hash_order,
                 restarts>>

\* ProcessLine that takes the lines of the batch from its end
ProcessLine_from_end ==
  /\ pc = "lines"
  /\ LET line == strip(new_lines[Len(new_lines)])
         rest == SubSeq(new_lines, 1, Len(new_lines) - 1)
         entry == json_loads(line)
     IN  /\ new_lines' = rest
         /\ IF line = <<>> \/ entry.json = "invalid"
              THEN /\ pc' = Continue(rest, todo)
                   /\ UNCHANGED <<session_events, attempts, classified, exit>>
              ELSE ProcessEntry(entry, rest)
  /\ UNCHANGED <<fileVars, positions, reads, todo, file_path, warned,
                 current_pos, cancelRequested, now, httpx, callVars, hash_order,
                 restarts>>

\* one turn of "for line in new_lines"
ProcessLine ==
  /\ pc = "lines"
  /\ LET line == strip(Head(new_lines))
         rest == Tail(new_lines)
         entry == json_loads(line)
     IN  /\ new_lines' = rest
         /\ IF line = <<>> \/ entry.json = "invalid"
              THEN \* blank line, or json.JSONDecodeError: continue
                   /\ pc' = Continue(rest, todo)
                   /\ UNCHANGED <<session_events, attempts, classified, exit>>
              ELSE ProcessEntry(entry, rest)
  /\ UNCHANGED <<fileVars, positions, reads, todo, file_path, warned,
                 current_pos, cancelRequested, now, httpx, callVars, hash_order,
                 restarts>>

\* client.post returns or raises: every failure is an Exception that
\* _send_event logs ("Exception" stands for timeouts, refused connections
\* and transport errors alike)
DispatchOutcomes == {"ok", "Exception"}

SetLast(s, v) == [s EXCEPT ![Len(s)] = v]

\* SendReturn with a failure that is not caught
SendReturn_raises ==
  /\ pc = "send"
  /\ ~cancelRequested
  /\ \E outcome \in DispatchOutcomes :
       /\ attempts' = SetLast(attempts, [attempts[Len(attempts)]
                                           EXCEPT !.result = outcome])
       /\ IF outcome = "ok"
            THEN pc' = Continue(new_lines, todo) /\ exit' = exit
            ELSE Raise(outcome)
  /\ UNCHANGED <<fileVars, positions, session_events, classified, reads,
                 todo, localVars, cancelRequested, now, httpx, callVars, hash_order,
                 restarts>>

\* SendReturn with one more try after a failure
SendReturn_retries ==
  /\ pc = "send"
  /\ ~cancelRequested
  /\ \E outcome \in DispatchOutcomes :
       LET last == attempts[Len(attempts)]
           done == SetLast(attempts, [last EXCEPT !.result = outcome])
           first_try == \A i \in 1..(Len(attempts) - 1) : attempts[i].n # last.n
       IN  IF outcome # "ok" /\ first_try
             THEN /\ attempts' = Append(done, [last EXCEPT !.result = "pending"])
                  /\ pc' = "send"
             ELSE /\ attempts' = done
                  /\ pc' = Continue(new_lines, todo)
  /\ UNCHANGED <<fileVars, positions, session_events, classified, reads,
                 todo, localVars, procVars>>

SendReturn ==
  /\ pc = "send"
  /\ ~cancelRequested
  /\ \E outcome \in DispatchOutcomes :
       attempts' = SetLast(attempts, [attempts[Len(attempts)]
                                        EXCEPT !.result = outcome])
  /\ pc' = Continue(new_lines, todo)
  /\ UNCHANGED <<fileVars, positions, session_events, classified, reads,
                 todo, localVars, procVars>>

\* a cancelled task gets CancelledError at the await it is suspended in.
\* CancelledError is a BaseException: "except Exception" in _send_event lets
\* it through, and so do the handlers of _process_file; run_daemon catches it.
SendCancelled ==
  /\ pc = "send"
  /\ cancelRequested
  /\ attempts' = SetLast(attempts, [attempts[Len(attempts)]
                                      EXCEPT !.result = "CancelledError"])
  /\ pc' = "stopped"
  /\ exit' = [exc |-> "CancelledError", at |-> "send"]
  /\ cancelRequested' = FALSE
  /\ UNCHANGED <<fileVars, positions, session_events, classified, reads,
                 todo, localVars, now, httpx, callVars, hash_order, restarts>>

\* asyncio.sleep(POLL_INTERVAL_SECONDS) ends and the next pass begins
Wake ==
  /\ pc = "sleep"
  /\ ~cancelRequested
  /\ now < MaxPasses * POLL_INTERVAL_SECONDS
  /\ now' = now + POLL_INTERVAL_SECONDS
  /\ todo' = Paths
  /\ pc' = "files"
  /\ UNCHANGED <<fileVars, trackerVars, localVars, cancelRequested, exit,
                 httpx, callVars, hash_order, restarts>>

SleepCancelled ==
  /\ pc = "sleep"
  /\ cancelRequested
  /\ pc' = "stopped"
  /\ exit' = [exc |-> "CancelledError", at |-> "sleep"]
  /\ cancelRequested' = FALSE
  /\ UNCHANGED <<fileVars, trackerVars, todo, localVars, now, httpx, callVars,
                 hash_order, restarts>>

\* ------------------------------------------------------------ environment
\* task.cancel(), or SIGINT under asyncio.run: it is delivered at the next
\* await that suspends
Cancel ==
  /\ Alive
  /\ ~cancelRequested
  /\ cancelRequested' = TRUE
  /\ UNCHANGED <<fileVars, trackerVars, pc, todo, localVars, exit, now,
                 httpx, callVars, hash_order, restarts>>

\* the daemon is started again: a new SessionTracker
Restart ==
  /\ ~Alive
  /\ restarts < MaxRestarts
  /\ restarts' = restarts + 1
  /\ positions' = EmptyDict
  /\ session_events' = <<>>
  /\ attempts' = <<>>
  /\ classified' = <<>>
  /\ pc' = "files"
  /\ todo' = Paths
  /\ new_lines' = <<>>
  /\ cancelRequested' = FALSE
  /\ exit' = NoExit
  /\ hash_order' \in HashOrders
  /\ UNCHANGED <<fileVars, reads, file_path, warned, current_pos, now,
                 httpx, callVars>>

\* Writers act where the scanner can tell the difference: before the first
\* stat() of a pass and between a stat() and the open() that follows it.  A
\* write at any other time is seen exactly as the same write before the next
\* pass is.
WriterTurn ==
  /\ (pc = "files" /\ todo = Paths) \/ pc = "open"
  /\ writes < MaxWrites

EndsInHalfLine(bytes) == bytes # <<>> /\ bytes[Len(bytes)].half = 1

\* a writer appends a whole line, the first half of one, or the missing half
AppendLine ==
  /\ WriterTurn
  /\ \E path \in Paths, l \in WriterLines :
       /\ ~EndsInHalfLine(file[path])
       /\ Len(file[path]) + 2 <= MaxBytes
       /\ file' = [file EXCEPT ![path] = @ \o Encode(l)]
  /\ writes' = writes + 1
  /\ UNCHANGED <<shrunk, trackerVars, pc, todo, localVars, procVars>>

AppendHalf ==
  /\ WriterTurn
  /\ \E path \in Paths :
       /\ Len(file[path]) + 1 <= MaxBytes
       /\ IF EndsInHalfLine(file[path])
            THEN file' = [file EXCEPT ![path] =
                            Append(@, [@[Len(@)] EXCEPT !.half = 2])]
            ELSE \E l \in WriterLines :
                   file' = [file EXCEPT ![path] = Append(@, Encode(l)[1])]
  /\ writes' = writes + 1
  /\ UNCHANGED <<shrunk, trackerVars, pc, todo, localVars, procVars>>

\* the file is truncated, or rotated: a shorter prefix is left
Truncate ==
  /\ WriterTurn
  /\ \E path \in Paths, n \in 0..MaxBytes :
       /\ n < Len(file[path])
       /\ file' = [file EXCEPT ![path] = SubSeq(@, 1, n)]
       /\ shrunk' = [shrunk EXCEPT ![path] = TRUE]
  /\ writes' = writes + 1
  /\ UNCHANGED <<trackerVars, pc, todo, localVars, procVars>>

\* one run of the daemon
Next ==
  \/ StatFile
  \/ ReadFile
  \/ ProcessLine
  \/ SendReturn
  \/ SendCancelled
  \/ Wake
  \/ SleepCancelled
  \/ Cancel
  \/ AppendLine
  \/ AppendHalf
  \/ Truncate

Spec == Init /\ [][Next]_vars

\* the daemon, started again whenever it has ended
NextRestart ==
  \/ Next
  \/ Restart

SpecRestart == Init /\ [][NextRestart]_vars

\* --- the first pass of a daemon started on logs that are already written
RECURSIVE Repeat(_, _)
Repeat(x, n) == IF n = 0 THEN <<>> ELSE <<x>> \o Repeat(x, n - 1)

RECURSIVE Flatten(_)
Flatten(ss) == IF ss = <<>> THEN <<>> ELSE Head(ss) \o Flatten(Tail(ss))

EncodeAll(ls) == Flatten([i \in 1..Len(ls) |-> Encode(ls[i])])

\* up to MaxValid user messages, then up to two lines of any kind
Batches ==
  {EncodeAll(Repeat(UserLine(BodyAB), k) \o tail) :
     k \in 0..MaxValid,
     tail \in {<<>>} \cup {<<x>> : x \in BatchLines}
                \cup {<<x, y>> : x \in BatchLines, y \in BatchLines}}

InitBatch ==
  /\ \E batch \in Batches, other \in {<<>>, Encode(UserLine(BodyBA))} :
       file = [p \in Paths |->
                 IF p = "alpha/sessions/s.jsonl" THEN batch ELSE other]
  /\ positions = EmptyDict
  /\ session_events = <<>>
  /\ pc = "files"
  /\ todo = Paths
  /\ file_path = AnyPath
  /\ warned = FALSE
  /\ current_pos = 0
  /\ new_lines = <<>>
  /\ cancelRequested = FALSE
  /\ exit = NoExit
  /\ now = 0
  /\ httpx \in BOOLEAN
  /\ hash_order \in HashOrders
  /\ attempts = <<>>
  /\ classified = <<>>
  /\ reads = [p \in Paths |-> <<>>]
  /\ shrunk = [p \in Paths |-> FALSE]
  /\ writes = 0
  /\ restarts = 0
  /\ call = NoCall
  /\ returned = NotReturned

\* the first pass of the daemon, up to its sleep
NextBatch ==
  \/ StatFile
  \/ ReadFile
  \/ ProcessLine
  \/ SendReturn

SpecBatch == InitBatch /\ [][NextBatch]_vars

\* --- a daemon that polls logs nobody writes to any more
\* a log of up to two lines of any kind
QuietLogs ==
  {EncodeAll(ls) :
     ls \in {<<>>} \cup {<<x>> : x \in BatchLines}
              \cup {<<x, y>> : x \in BatchLines, y \in BatchLines}}

InitQuiet ==
  /\ \E log \in QuietLogs, other \in {<<>>, Encode(UserLine(BodyBA))} :
       file = [p \in Paths |->
                 IF p = "alpha/sessions/s.jsonl" THEN log ELSE other]
  /\ positions = EmptyDict
  /\ session_events = <<>>
  /\ pc = "files"
  /\ todo = Paths
  /\ file_path = AnyPath
  /\ warned = FALSE
  /\ current_pos = 0
  /\ new_lines = <<>>
  /\ cancelRequested = FALSE
  /\ exit = NoExit
  /\ now = 0
  /\ httpx \in BOOLEAN
  /\ hash_order = "first_in"
  /\ attempts = <<>>
  /\ classified = <<>>
  /\ reads = [p \in Paths |-> <<>>]
  /\ shrunk = [p \in Paths |-> FALSE]
  /\ writes = 0
  /\ restarts = 0
  /\ call = NoCall
  /\ returned = NotReturned

NextQuiet ==
  \/ StatFile
  \/ ReadFile
  \/ ProcessLine
  \/ SendReturn
  \/ Wake

SpecQuiet == InitQuiet /\ [][NextQuiet]_vars

\* ------------------------------------------- endpoints/quick_check.py
\* the daemon is not running
watcherVars ==
  <<fileVars, trackerVars, pc, todo, localVars, cancelRequested, exit, now,
    httpx, restarts>>

WatcherNotStarted ==
  /\ file = [p \in Paths |-> <<>>]
  /\ positions = EmptyDict
  /\ session_events = <<>>
  /\ pc = "stopped"
  /\ todo = {}
  /\ file_path = AnyPath
  /\ warned = FALSE
  /\ current_pos = 0
  /\ new_lines = <<>>
  /\ cancelRequested = FALSE
  /\ exit = NoExit
  /\ now = 0
  /\ httpx = TRUE
  /\ attempts = <<>>
  /\ classified = <<>>
  /\ reads = [p \in Paths |-> <<>>]
  /\ shrunk = [p \in Paths |-> FALSE]
  /\ writes = 0
  /\ restarts = 0

\* what a call comes to: a value it returns, or an exception that leaves it
Returns(value) == [kind |-> "return", value |-> value]
Raises(exc) == [kind |-> "raise", exc |-> exc]

Return(value) == returned' = Returns(value)

HIGH_RISK_KEYWORDS ==
  << <<"d","e","l","e","t","e">>,
    <<"d","r","o","p">>,
    <<"r","m"," ","-","r","f">>,
    <<"t","r","u","n","c","a","t","e">>,
    <<"p","r","o","d","u","c","t","i","o","n">>,
    <<"d","e","s","t","r","o","y">>,
    <<"w","i","p","e">>,
    <<"p","u","r","g","e">>,
    <<"c","r","e","d","e","n","t","i","a","l">>,
    <<"s","e","c","r","e","t">>,
    <<"p","a","s","s","w","o","r","d">> >>

MEDIUM_RISK_KEYWORDS ==
  << <<"r","e","f","a","c","t","o","r">>,
    <<"m","i","g","r","a","t","e">>,
    <<"a","r","c","h","i","t","e","c","t","u","r","e">>,
    <<"a","u","t","h">>,
    <<"s","e","c","u","r","i","t","y">>,
    <<"p","a","y","m","e","n","t">>,
    <<"d","e","p","l","o","y">>,
    <<"d","a","t","a","b","a","s","e">>,
    <<"s","c","h","e","m","a">>,
    <<"a","p","i">> >>

\* salience is counted in hundredths: 0.1 is 10, 0.6 is 60, 0.9 is 90
BaseSalience == 10
HighSalience == 90
MediumSalience == 60
EmergeThreshold == 85
SubtleThreshold == 50
ReasonKeywords == 3

None == "None"

\* the keywords of a list that occur in the text, in list order
Detected(keywords, prompt_lower) ==
  SelectSeq(keywords, LAMBDA keyword : Contains(keyword, prompt_lower))

\* analyze_prompt with a salience that starts at 0
analyze_prompt_base_zero(prompt) ==
  LET prompt_lower == str_lower(prompt)
      high == Detected(HIGH_RISK_KEYWORDS, prompt_lower)
      after_high == IF high # <<>> THEN MaxOf({0, HighSalience}) ELSE 0
      medium == IF after_high < HighSalience
                  THEN Detected(MEDIUM_RISK_KEYWORDS, prompt_lower) ELSE <<>>
      salience == IF medium # <<>> THEN MaxOf({after_high, MediumSalience})
                  ELSE after_high
      detected == high \o medium
  IN  [salience |-> salience,
       should_emerge |-> salience >= EmergeThreshold,
       mode |-> IF salience >= EmergeThreshold THEN "emerge"
                ELSE IF salience >= SubtleThreshold THEN "subtle"
                ELSE "silent",
       emergence_reason |->
         IF detected # <<>> THEN Take(detected, ReasonKeywords) ELSE None,
       detected_keywords |-> detected]

\* analyze_prompt with the medium keywords scanned whatever the high scan found
analyze_prompt_scans_both(prompt) ==
  LET prompt_lower == str_lower(prompt)
      high == Detected(HIGH_RISK_KEYWORDS, prompt_lower)
      medium == Detected(MEDIUM_RISK_KEYWORDS, prompt_lower)
      salience == IF medium # <<>> THEN MediumSalience
                  ELSE IF high # <<>> THEN HighSalience
                  ELSE BaseSalience
      detected == high \o medium
  IN  [salience |-> salience,
       should_emerge |-> salience >= EmergeThreshold,
       mode |-> IF salience >= EmergeThreshold THEN "emerge"
                ELSE IF salience >= SubtleThreshold THEN "subtle"
                ELSE "silent",
       emergence_reason |->
         IF detected # <<>> THEN Take(detected, ReasonKeywords) ELSE None,
       detected_keywords |-> detected]

\* analyze_prompt that matches the keywords against the prompt as typed
analyze_prompt_as_typed(prompt) ==
  LET high == Detected(HIGH_RISK_KEYWORDS, prompt)
      after_high == IF high # <<>> THEN MaxOf({BaseSalience, HighSalience})
                    ELSE BaseSalience
      medium == IF after_high < HighSalience
                  THEN Detected(MEDIUM_RISK_KEYWORDS, prompt) ELSE <<>>
      salience == IF medium # <<>> THEN MaxOf({after_high, MediumSalience})
                  ELSE after_high
      detected == high \o medium
  IN  [salience |-> salience,
       should_emerge |-> salience >= EmergeThreshold,
       mode |-> IF salience >= EmergeThreshold THEN "emerge"
                ELSE IF salience >= SubtleThreshold THEN "subtle"
                ELSE "silent",
       emergence_reason |->
         IF detected # <<>> THEN Take(detected, ReasonKeywords) ELSE None,
       detected_keywords |-> detected]

\* analyze_prompt with every detected keyword in the reason
analyze_prompt_reason_all(prompt) ==
  LET prompt_lower == str_lower(prompt)
      high == Detected(HIGH_RISK_KEYWORDS, prompt_lower)
      after_high == IF high # <<>> THEN MaxOf({BaseSalience, HighSalience})
                    ELSE BaseSalience
      medium == IF after_high < HighSalience
                  THEN Detected(MEDIUM_RISK_KEYWORDS, prompt_lower) ELSE <<>>
      salience == IF medium # <<>> THEN MaxOf({after_high, MediumSalience})
                  ELSE after_high
      detected == high \o medium
  IN  [salience |-> salience,
       should_emerge |-> salience >= EmergeThreshold,
       mode |-> IF salience >= EmergeThreshold THEN "emerge"
                ELSE IF salience >= SubtleThreshold THEN "subtle"
                ELSE "silent",
       emergence_reason |-> IF detected # <<>> THEN detected ELSE None,
       detected_keywords |-> detected]

\* analyze_prompt: the two scans, the mode, the reason (its first three
\* keywords; the f-string around them is left out)
analyze_prompt(prompt) ==
  LET prompt_lower == str_lower(prompt)
      high == Detected(HIGH_RISK_KEYWORDS, prompt_lower)
      after_high == IF high # <<>> THEN MaxOf({BaseSalience, HighSalience})
                    ELSE BaseSalience
      medium == IF after_high < HighSalience
                  THEN Detected(MEDIUM_RISK_KEYWORDS, prompt_lower) ELSE <<>>
      salience == IF medium # <<>> THEN MaxOf({after_high, MediumSalience})
                  ELSE after_high
      detected == high \o medium
  IN  [salience |-> salience,
       should_emerge |-> salience >= EmergeThreshold,
       mode |-> IF salience >= EmergeThreshold THEN "emerge"
                ELSE IF salience >= SubtleThreshold THEN "subtle"
                ELSE "silent",
       emergence_reason |->
         IF detected # <<>> THEN Take(detected, ReasonKeywords) ELSE None,
       detected_keywords |-> detected]

\* words prompts are made of: keywords in both cases, inside longer words
\* and split over two words, and words that hold no keyword
PromptWords ==
  << <<"d","e","l","e","t","e">>,
    <<"D","R","O","P">>,
    <<"r","m">>,
    <<"-","r","f">>,
    <<"p","a","s","s","w","o","r","d","s">>,
    <<"r","e","f","a","c","t","o","r">>,
    <<"A","P","I">>,
    <<"d","e","p","l","o","y","m","e","n","t">>,
    <<"a","u","t","h","o","r">>,
    <<"h","e","l","l","o">>,
    <<"l","i","s","t">>,
    <<"W","i","p","e","d">>,
    <<"a","u","t","h","-","a","p","i","-","s","c","h","e","m","a","-","d","a","t","a","b","a","s","e">>,
    <<"p","u","r","g","e","-","w","i","p","e","-","d","r","o","p","-","d","e","l","e","t","e">> >>

\* the texts of up to n words of a vocabulary, one space between two words
RECURSIVE TextsOf(_, _)
TextsOf(words, n) ==
  IF n = 0 THEN {<<>>}
  ELSE LET shorter == TextsOf(words, n - 1)
       IN  shorter
             \cup {words[i] : i \in 1..Len(words)}
             \cup {t \o <<" ">> \o words[i] :
                     t \in shorter \ {<<>>}, i \in 1..Len(words)}

Prompts == TextsOf(PromptWords, MaxWords)

InitQuickCheck ==
  /\ WatcherNotStarted
  /\ hash_order = "first_in"
  /\ \E prompt \in Prompts : call = [fn |-> "analyze_prompt", prompt |-> prompt]
  /\ returned = NotReturned

AnalyzePrompt ==
  /\ call.fn = "analyze_prompt"
  /\ returned = NotReturned
  /\ Return(analyze_prompt(call.prompt))
  /\ UNCHANGED <<watcherVars, hash_order, call>>

NextQuickCheck == AnalyzePrompt

SpecQuickCheck == InitQuickCheck /\ [][NextQuickCheck]_vars

\* ------------------- detect_intention and extract_files_touched, called
\* words messages are made of: keywords of several intents in both cases,
\* inside longer words and split over two words, and a word with no keyword
MessageWords ==
  << <<"R","e","m","o","v","e">>,
    <<"a","d","d">>,
    <<"a","d","d","r","e","s","s">>,
    <<"c","l","e","a","n">>,
    <<"u","p">>,
    <<"h","e","l","p">>,
    <<"m","e">>,
    <<"l","a","t","e","s","t">>,
    <<"C","R","A","S","H">>,
    <<"s","h","i","p">>,
    <<"h","e","l","l","o">>,
    <<"D","r","o","p">> >>

Messages == TextsOf(MessageWords, MaxWords)

\* the i-th file name: a letter, a dot, py
FileToken(i) == <<LowerCase[i], ".", "p", "y">>

RECURSIVE JoinTokens(_, _, _)
JoinTokens(n, before, after) ==
  IF n = 0 THEN <<>>
  ELSE JoinTokens(n - 1, before, after)
         \o (IF n = 1 THEN <<>> ELSE <<" ">>)
         \o before \o FileToken(n) \o after

\* messages that name n files: as words, between apostrophes, and each twice
TokenStyles == {"plain", "quoted", "twice"}

FileMessage(n, style) ==
  IF style = "plain" THEN JoinTokens(n, <<>>, <<>>)
  ELSE IF style = "quoted" THEN JoinTokens(n, <<Apostrophe>>, <<Apostrophe>>)
  ELSE IF n = 0 THEN <<>>
  ELSE JoinTokens(n, <<>>, <<>>) \o <<" ">> \o JoinTokens(n, <<>>, <<>>)

FileMessages == {FileMessage(n, style) : n \in 0..MaxTokens, style \in TokenStyles}

\* every keyword of the table, as a text of its own
Keywords ==
  UNION {Range(INTENT_PATTERNS[i].keywords) : i \in 1..Len(INTENT_PATTERNS)}

InitSignals ==
  /\ WatcherNotStarted
  /\ hash_order \in HashOrders
  /\ \/ \E message \in Messages \cup Keywords :
          call = [fn |-> "detect_intention", message |-> message]
     \/ \E message \in FileMessages :
          call = [fn |-> "extract_files_touched", message |-> message]
  /\ returned = NotReturned

DetectIntention ==
  /\ call.fn = "detect_intention"
  /\ returned = NotReturned
  /\ Return(detect_intention(call.message))
  /\ UNCHANGED <<watcherVars, hash_order, call>>

ExtractFilesTouched ==
  /\ call.fn = "extract_files_touched"
  /\ returned = NotReturned
  /\ Return(extract_files_touched(hash_order, call.message))
  /\ UNCHANGED <<watcherVars, hash_order, call>>

NextSignals ==
  \/ DetectIntention
  \/ ExtractFilesTouched

SpecSignals == InitSignals /\ [][NextSignals]_vars

\* ------------------------------------------- integrations/mcp_server.py
\* What the remote service does with one request: it does not answer in
\* time, the connection fails, it answers with a status raise_for_status
\* rejects, or it answers 2xx with a body: a JSON object that holds n
\* precedents under precedent_guidance, a JSON object without that key, JSON
\* that is no object, or bytes that are no JSON.
Precedent(i) == [decision |-> i]

Remotes ==
  {[outcome |-> o] : o \in {"timeout", "connect_error", "status_error",
                             "object", "array", "not_json"}}
    \cup {[outcome |-> "precedents", n |-> n] : n \in 0..MaxPrecedents}

Succeeded(remote) == remote.outcome \in {"object", "precedents"}

\* response.json() of a 2xx answer whose body is JSON
Body(remote) ==
  IF remote.outcome = "precedents"
    THEN [type |-> "dict",
          dict |-> [precedent_guidance |->
                      [i \in 1..remote.n |-> Precedent(i)]]]
  ELSE IF remote.outcome = "object"
    THEN [type |-> "dict", dict |-> [status |-> "ok"]]
  ELSE [type |-> "list"]

\* the body shared by _http_post and _http_get: the request, raise_for_status,
\* response.json(), and the three handlers (httpx.TimeoutException,
\* httpx.HTTPStatusError, httpx.RequestError).  json.JSONDecodeError is a
\* ValueError and none of the three.
http_request(remote, request_error) ==
  IF remote.outcome = "timeout"
    THEN Returns([type |-> "dict", dict |-> [error |-> "timeout"]])
  ELSE IF remote.outcome = "status_error"
    THEN Returns([type |-> "dict", dict |-> [error |-> "http_error"]])
  ELSE IF remote.outcome = "connect_error"
    THEN Returns([type |-> "dict", dict |-> [error |-> request_error]])
  ELSE IF remote.outcome = "not_json"
    THEN Raises("JSONDecodeError")
  ELSE Returns(Body(remote))

http_post(remote) == http_request(remote, "connection_error")
http_get(remote) == http_request(remote, "request_error")

\* min(max(limit, 1), 10)
MinPrecedentLimit == 1
MaxPrecedentLimit == 10

precedent_limit(limit) ==
  MinOf({MaxOf({limit, MinPrecedentLimit}), MaxPrecedentLimit})

\* the Python slice s[:n], n of either sign
SliceTo(s, n) ==
  IF n >= 0 THEN Take(s, n)
  ELSE IF Len(s) + n > 0 THEN Take(s, Len(s) + n) ELSE <<>>

\* noesis_precedent: the payload asks for precedent_limit(limit) precedents,
\* the heading reports len(precedents) when there are any, and the loop lists
\* precedents[:limit].  The text of the output is left out: what is kept is
\* the number requested, the number reported, the precedents listed, and
\* whether the text says that the service is unavailable: no branch of
\* noesis_precedent writes that, an error dict has no precedent_guidance and
\* takes the branch "No directly relevant precedents found".
noesis_precedent(limit, remote) ==
  LET result == http_post(remote)
  IN  IF result.kind = "raise" THEN result
      ELSE IF result.value.type # "dict" THEN Raises("AttributeError")
      ELSE LET precedents == Get(result.value.dict, "precedent_guidance", <<>>)
           IN  Returns([requested |-> precedent_limit(limit),
                        found |-> Len(precedents),
                        listed |-> SliceTo(precedents, limit),
                        says_unavailable |-> FALSE])

\* the shape shared by noesis_consult, noesis_tribunal and noesis_confront:
\* _http_post, then "if 'error' in result" returns the text that says the
\* service is unavailable, and otherwise the answer is formatted with
\* result.get (a body that is a JSON array passes the test of "in" and has
\* no get: AttributeError)
tool_with_fallback(remote) ==
  LET result == http_post(remote)
  IN  IF result.kind = "raise" THEN result
      ELSE IF result.value.type # "dict" THEN Raises("AttributeError")
      ELSE Returns([says_unavailable |-> "error" \in DOMAIN result.value.dict])

\* "[NOESIS unavailable: ...]" and three questions
noesis_consult(remote) == tool_with_fallback(remote)

\* "[Tribunal unavailable: ...]" and a caution
noesis_tribunal(remote) == tool_with_fallback(remote)

\* "[NOESIS unavailable - using fallback questions]" and five questions
noesis_confront(remote) == tool_with_fallback(remote)

FallbackTools == {"noesis_consult", "noesis_tribunal", "noesis_confront"}

Limits == (0 - MaxLimit)..MaxLimit

InitMcp ==
  /\ WatcherNotStarted
  /\ hash_order = "first_in"
  /\ \/ \E remote \in Remotes, fn \in {"_http_post", "_http_get"} :
          call = [fn |-> fn, remote |-> remote]
     \/ \E remote \in Remotes, limit \in Limits :
          call = [fn |-> "noesis_precedent", limit |-> limit,
                  remote |-> remote]
     \/ \E remote \in Remotes, fn \in FallbackTools :
          call = [fn |-> fn, remote |-> remote]
  /\ returned = NotReturned

HttpPost ==
  /\ call.fn = "_http_post"
  /\ returned = NotReturned
  /\ returned' = http_post(call.remote)
  /\ UNCHANGED <<watcherVars, hash_order, call>>

HttpGet ==
  /\ call.fn = "_http_get"
  /\ returned = NotReturned
  /\ returned' = http_get(call.remote)
  /\ UNCHANGED <<watcherVars, hash_order, call>>

NoesisPrecedent ==
  /\ call.fn = "noesis_precedent"
  /\ returned = NotReturned
  /\ returned' = noesis_precedent(call.limit, call.remote)
  /\ UNCHANGED <<watcherVars, hash_order, call>>

NoesisConsult ==
  /\ call.fn = "noesis_consult"
  /\ returned = NotReturned
  /\ returned' = noesis_consult(call.remote)
  /\ UNCHANGED <<watcherVars, hash_order, call>>

NoesisTribunal ==
  /\ call.fn = "noesis_tribunal"
  /\ returned = NotReturned
  /\ returned' = noesis_tribunal(call.remote)
  /\ UNCHANGED <<watcherVars, hash_order, call>>

NoesisConfront ==
  /\ call.fn = "noesis_confront"
  /\ returned = NotReturned
  /\ returned' = noesis_confront(call.remote)
  /\ UNCHANGED <<watcherVars, hash_order, call>>

NextMcp ==
  \/ HttpPost
  \/ HttpGet
  \/ NoesisPrecedent
  \/ NoesisConsult
  \/ NoesisTribunal
  \/ NoesisConfront

SpecMcp == InitMcp /\ [][NextMcp]_vars

\* ------------------------------------------- endpoints/daimon_routes.py
SignificantFiles == 5
SignificantMinutes == 30
PrecedentIdChars == 8

\* the characters of "sess_"
PrecedentPrefix == <<"s", "e", "s", "s", "_">>

\* record_session_end with a precedent only when both thresholds are met
record_session_end_both(request) ==
  LET significant == /\ request.files_changed >= SignificantFiles
                     /\ request.duration_minutes >= SignificantMinutes
  IN  [status |-> "ok",
       precedent_id |->
         IF significant
           THEN PrecedentPrefix \o Take(request.session_id, PrecedentIdChars)
           ELSE None]

\* record_session_end: SessionEndResponse(status, precedent_id).  The
\* duration is a float in the code and a whole number of minutes here.
record_session_end(request) ==
  LET significant == \/ request.files_changed >= SignificantFiles
                     \/ request.duration_minutes >= SignificantMinutes
  IN  [status |-> "ok",
       precedent_id |->
         IF significant
           THEN PrecedentPrefix \o Take(request.session_id, PrecedentIdChars)
           ELSE None]

\* SessionEndRequest: session ids of every length up to MaxIdLen, the empty
\* one included, and values on both sides of the two thresholds
SessionEndRequests ==
  [session_id : {Take(LowerCase, n) : n \in 0..MaxIdLen},
   duration_minutes : 0..MaxMinutes,
   files_changed : (0 - 1)..MaxFilesChanged]

InitRoutes ==
  /\ WatcherNotStarted
  /\ hash_order = "first_in"
  /\ \E request \in SessionEndRequests :
       call = [fn |-> "record_session_end", request |-> request]
  /\ returned = NotReturned

RecordSessionEnd ==
  /\ call.fn = "record_session_end"
  /\ returned = NotReturned
  /\ Return(record_session_end(call.request))
  /\ UNCHANGED <<watcherVars, hash_order, call>>

NextRoutes == RecordSessionEnd

SpecRoutes == InitRoutes /\ [][NextRoutes]_vars

\* ------------------------------------------------------------ properties
\* the bytes, and the user messages, of a sequence of reads
RECURSIVE SumLengths(_)
SumLengths(r) ==
  IF r = <<>> THEN 0 ELSE (Head(r).hi - Head(r).lo) + SumLengths(Tail(r))

RECURSIVE SumUsers(_)
SumUsers(r) == IF r = <<>> THEN 0 ELSE Head(r).users + SumUsers(Tail(r))

\* the reads of a file by the running daemon
ReadsOfRun(path) == SelectSeq(reads[path], LAMBDA r : r.run = restarts)

\* the user messages the running daemon has read so far
UsersRead ==
  LET RECURSIVE Total(_)
      Total(S) == IF S = {} THEN 0
                  ELSE LET q == CHOOSE x \in S : TRUE
                       IN  SumUsers(ReadsOfRun(q)) + Total(S \ {q})
  IN  Total(Paths)

\* _process_file has just finished with this file, or is working on what it
\* read of it, and no writer has had a turn since
FileScanned(path) ==
  /\ file_path = path
  /\ ~warned
  /\ pc \in {"lines", "send", "sleep"} \/ (pc = "files" /\ todo # Paths)

\* C1: the checkpoint of every file never decreases from one step of the
\* daemon to the next, whatever the writers do to the file (growth, no
\* change, truncation) and whatever stat() and open() answer.
C1_CheckpointMonotonic ==
  [][\A path \in Paths :
       Get(positions, path, 0) <= Get(positions', path, 0)]_vars

\* a file that was truncated below its checkpoint has been scanned again
C1_Witness ==
  \E path \in DOMAIN positions :
    /\ shrunk[path]
    /\ positions[path] > Len(file[path])
    /\ FileScanned(path)

\* C2: a stat() that succeeds on a file shorter than its checkpoint is
\* followed by a read of that file from offset 0 (the checkpoint is reset).
C2_TruncationResetsCheckpoint ==
  [][\A path \in Paths :
       (/\ pc = "files"
        /\ path \in todo /\ path \notin todo'
        /\ ~warned'
        /\ Len(file[path]) < Get(positions, path, 0))
       => (pc' = "open" /\ current_pos' = 0)]_vars

\* C3: for a file that only grows, the ranges read so far start at 0, are
\* non-empty, each begins where the one before ended, and their lengths sum
\* to the checkpoint; once the file has been scanned, that sum is its size.
C3_ReadsPartitionGrowingFile ==
  \A path \in Paths :
    ~shrunk[path] =>
      LET r == reads[path]
      IN  /\ r # <<>> => r[1].lo = 0
          /\ \A i \in 1..Len(r) : r[i].lo < r[i].hi
          /\ \A i \in 1..(Len(r) - 1) : r[i + 1].lo = r[i].hi
          /\ SumLengths(r) = Get(positions, path, 0)
          /\ FileScanned(path) => SumLengths(r) = Len(file[path])

\* a file that grew twice, read in two ranges, the second scan done
C3_Witness ==
  \E path \in Paths :
    /\ ~shrunk[path]
    /\ Len(reads[path]) = 2
    /\ FileScanned(path)
    /\ Len(file[path]) >= 3

\* C4: no two reads of a file overlap, the reads before a restart of the
\* daemon and those after it included.
C4_NoRangeReadTwice ==
  \A path \in Paths :
    \A i, j \in 1..Len(reads[path]) :
      i < j => reads[path][i].hi <= reads[path][j].lo

\* C5: run_daemon ends only by cancellation: nothing that happens in a scan
\* pass ends it.
C5_StopsOnlyByCancellation == ~Alive => exit.exc = "CancelledError"

\* C6: a cancelled daemon stops in the sleep between two passes, with no
\* line and no file of a pass left unprocessed.
C6_CancelWaitsForSleep ==
  pc = "stopped" => (exit.at = "sleep" /\ new_lines = <<>> /\ todo = {})

\* C7: a failed dispatch ends nothing: no failure of _send_event leaves
\* run_daemon, and whenever a file is done, every user message read so far
\* has had its dispatch attempted, whatever the results of earlier ones.
C7_DispatchFailureIsSwallowed ==
  /\ exit.exc \notin {"Exception", "ImportError"}
  /\ pc \in {"files", "sleep"} => Len(attempts) = UsersRead

\* a pass went to its end with a failed dispatch followed by another attempt
C7_Witness ==
  /\ pc = "sleep"
  /\ \E i, j \in 1..Len(attempts) :
       /\ i < j
       /\ attempts[i].result \in {"Exception", "ImportError"}
       /\ session_events[i].timestamp = session_events[j].timestamp

\* C9: every entry of session_events has exactly one dispatch attempt, made
\* when the entry was made: the i-th attempt is for the i-th entry, only the
\* attempt in flight is pending, and nothing is attempted twice.
C9_OneAttemptPerRecord ==
  /\ Len(attempts) = Len(session_events)
  /\ \A i \in 1..Len(attempts) :
       /\ attempts[i].n = i
       /\ attempts[i].result = "pending" => (i = Len(attempts) /\ pc = "send")

\* a dispatch failed in an earlier pass and a later pass has gone to its end
C9_Witness ==
  /\ pc = "sleep"
  /\ \E i \in 1..Len(attempts) :
       /\ attempts[i].result = "Exception"
       /\ session_events[i].timestamp < now

\* the bodies of the user messages of a sequence of bytes, in order
UserBodies(bytes) ==
  LET msgs == SelectSeq(readlines(bytes), IsUserMessage)
  IN  [i \in 1..Len(msgs) |-> json_loads(strip(msgs[i])).content]

\* the bodies behind the entries of session_events of one project, in order
ClassifiedOf(project) ==
  LET both == [i \in 1..Len(classified) |->
                 <<session_events[i].project, classified[i]>>]
      mine == SelectSeq(both, LAMBDA x : x[1] = project)
  IN  [i \in 1..Len(mine) |-> mine[i][2]]

\* the file has been read and all its lines have been looped over
FileDone(path) ==
  /\ Alive
  /\ reads[path] # <<>>
  /\ ~(file_path = path /\ pc \in {"lines", "send"})

\* C8: once the lines of a log have been looped over, the checkpoint is at
\* the end of the log and session_events holds one entry for every user
\* message of the log, in order, those before and those after a line that
\* json.loads rejects.
C8_MalformedLineIsSkipped ==
  \A path \in Paths :
    FileDone(path) =>
      /\ positions[path] = Len(file[path])
      /\ ClassifiedOf(ProjectOf(path)) = UserBodies(file[path])

\* three user messages, a malformed line, a user message: four entries and
\* the checkpoint behind the fifth line
C8_Witness ==
  \E path \in Paths :
    /\ FileDone(path)
    /\ file[path] = EncodeAll(Repeat(UserLine(BodyAB), 3)
                                \o <<GarbageLine, UserLine(BodyAB)>>)
    /\ Len(ClassifiedOf(ProjectOf(path))) = 4
    /\ positions[path] = Len(Encode(GarbageLine)) * 5

\* the intent, and the path tokens the two patterns match, of every body
IntentOf == [b \in Bodies |-> detect_intention(b)]
TokensOf == [b \in Bodies |-> Range(KeptFiles(FoundFiles(b)))]

EventFields ==
  {"event_type", "timestamp", "project", "files_touched", "intention"}

\* two entries of session_events of one project whose bodies have the same
\* intent and the same path tokens
SameSignal(i, j) ==
  /\ session_events[i].project = session_events[j].project
  /\ IntentOf[classified[i]] = IntentOf[classified[j]]
  /\ TokensOf[classified[i]] = TokensOf[classified[j]]

Untimed(event) == [event EXCEPT !.timestamp = 0]

\* C10 as stated: an entry of session_events has the five keys and no
\* other, and two bodies with the same intent and the same path tokens give
\* entries that are equal but for the timestamp.
C10_EventsEqualButForTimestamp ==
  /\ \A i \in 1..Len(session_events) :
       DOMAIN session_events[i] = EventFields
  /\ \A i, j \in 1..Len(session_events) :
       SameSignal(i, j) =>
         Untimed(session_events[i]) = Untimed(session_events[j])

\* C10, amended: an entry has the five keys and no other, its intent is that
\* of the body and its files_touched are distinct path tokens of the body, at
\* most MaxFilesTouched of them; two bodies with the same intent and the same
\* path tokens give entries that agree in event_type, intention and project
\* and in the number of files_touched, and, when there are no more than
\* MaxFilesTouched tokens, in the set of files_touched.
C10_EventsEqualButForTimestampAndOrder ==
  /\ \A i \in 1..Len(session_events) :
       LET e == session_events[i]
           body == classified[i]
       IN  /\ DOMAIN e = EventFields
           /\ e.event_type = IntentOf[body]
           /\ e.intention = IntentOf[body]
           /\ Range(e.files_touched) \subseteq TokensOf[body]
           /\ Len(e.files_touched) <= MaxFilesTouched
           /\ Cardinality(Range(e.files_touched)) = Len(e.files_touched)
  /\ \A i, j \in 1..Len(session_events) :
       SameSignal(i, j) =>
         LET e == session_events[i]
             f == session_events[j]
         IN  /\ e.event_type = f.event_type
             /\ e.intention = f.intention
             /\ Len(e.files_touched) = Len(f.files_touched)
             /\ Cardinality(TokensOf[classified[i]]) <= MaxFilesTouched
                  => Range(e.files_touched) = Range(f.files_touched)

\* two different bodies with the same intent and the same path tokens, and
\* entries that differ in the order of files_touched
C10_Witness ==
  \E i, j \in 1..Len(session_events) :
    /\ SameSignal(i, j)
    /\ classified[i] # classified[j]
    /\ session_events[i].files_touched # session_events[j].files_touched
    /\ Range(session_events[i].files_touched)
         = Range(session_events[j].files_touched)

\* every dispatch attempt made so far has returned or raised
NoDispatchPending ==
  \A i \in 1..Len(attempts) : attempts[i].result # "pending"

\* nothing of the pass is left: no file, no line, no dispatch, and every
\* user message read by this daemon has its entry and its attempt
PassComplete ==
  /\ todo = {}
  /\ new_lines = <<>>
  /\ NoDispatchPending
  /\ Len(session_events) = UsersRead
  /\ Len(attempts) = UsersRead

\* C11: the sleep begins only when the pass is complete (every file visited,
\* every line read looped over, every user message classified and its
\* dispatch attempted and over), and a pass begins only out of the sleep,
\* POLL_INTERVAL_SECONDS later.
C11_PassesNeverOverlap ==
  [][/\ (pc # "sleep" /\ pc' = "sleep") => PassComplete'
     /\ (todo # Paths /\ todo' = Paths) =>
          (pc = "sleep" /\ PassComplete
           /\ now' = now + POLL_INTERVAL_SECONDS)]_vars

\* the second pass is over: both files were read, in different passes, and
\* both user messages have had their dispatch
C11_Witness ==
  /\ pc = "sleep"
  /\ now > 0
  /\ \A path \in Paths : reads[path] # <<>>
  /\ Len(attempts) = 2
  /\ session_events[1].timestamp < session_events[2].timestamp

\* C12: a pending dispatch does not hold the line loop: while the post of
\* one record is pending and lines of the same read are left, the loop can
\* take its next line.
C12_PendingDispatchDoesNotBlock ==
  (~NoDispatchPending /\ new_lines # <<>>) => ENABLED ProcessLine

\* a keyword of the list occurs in the prompt, in whatever case it is typed
HasKeyword(keywords, prompt) ==
  \E i \in 1..Len(keywords) : Contains(keywords[i], str_lower(prompt))

\* analyze_prompt has returned
Analyzed == call.fn = "analyze_prompt" /\ returned.kind = "return"

\* C13: a prompt in which a high-risk keyword occurs gets a salience of at
\* least 0.85, mode emerge and should_emerge, whether medium-risk keywords
\* occur in it or not.
C13_HighRiskEmerges ==
  (Analyzed /\ HasKeyword(HIGH_RISK_KEYWORDS, call.prompt)) =>
    /\ returned.value.salience >= EmergeThreshold
    /\ returned.value.mode = "emerge"
    /\ returned.value.should_emerge = TRUE

\* a prompt with a high-risk and a medium-risk keyword, both in upper case:
\* the high-risk one alone is detected
C13_Witness ==
  /\ Analyzed
  /\ Contains(<<"D","R","O","P">>, call.prompt)
  /\ Contains(<<"A","P","I">>, call.prompt)
  /\ Len(returned.value.detected_keywords) = 1
  /\ returned.value.mode = "emerge"

\* C14: a prompt in which a medium-risk keyword occurs and no high-risk
\* keyword does gets a salience from 0.5 up to, not including, 0.85, mode
\* subtle and no should_emerge.
C14_MediumRiskIsSubtle ==
  (/\ Analyzed
   /\ HasKeyword(MEDIUM_RISK_KEYWORDS, call.prompt)
   /\ ~HasKeyword(HIGH_RISK_KEYWORDS, call.prompt)) =>
    /\ returned.value.salience >= SubtleThreshold
    /\ returned.value.salience < EmergeThreshold
    /\ returned.value.mode = "subtle"
    /\ returned.value.should_emerge = FALSE

\* a medium-risk keyword typed in upper case, and two of them detected
C14_Witness ==
  /\ Analyzed
  /\ ~HasKeyword(HIGH_RISK_KEYWORDS, call.prompt)
  /\ Contains(<<"A","P","I">>, call.prompt)
  /\ Len(returned.value.detected_keywords) = 2
  /\ returned.value.mode = "subtle"

\* C15: a prompt in which no keyword of either list occurs, the empty prompt
\* included, gets salience 0.1 exactly, mode silent, no should_emerge, no
\* detected keyword (and no reason).
C15_NoKeywordIsSilent ==
  (/\ Analyzed
   /\ ~HasKeyword(HIGH_RISK_KEYWORDS, call.prompt)
   /\ ~HasKeyword(MEDIUM_RISK_KEYWORDS, call.prompt)) =>
    /\ returned.value.salience = BaseSalience
    /\ returned.value.mode = "silent"
    /\ returned.value.should_emerge = FALSE
    /\ returned.value.detected_keywords = <<>>
    /\ returned.value.emergence_reason = None

\* the empty prompt has been analyzed
C15_Witness ==
  /\ Analyzed
  /\ call.prompt = <<>>
  /\ returned.value.salience = BaseSalience
  /\ returned.value.detected_keywords = <<>>

\* a keyword of the i-th entry of the table occurs in the lower-cased text
EntryOccurs(i, message) ==
  \E j \in 1..Len(INTENT_PATTERNS[i].keywords) :
    Contains(INTENT_PATTERNS[i].keywords[j], str_lower(message))

TableOrder ==
  <<"create", "fix", "refactor", "understand", "delete", "test", "deploy">>

\* C16: detect_intention returns, for every text, the intent of the first
\* entry of the table (in the order create, fix, refactor, understand,
\* delete, test, deploy) one of whose keywords occurs in the lower-cased
\* text, and unknown exactly when no keyword of any entry occurs; the result
\* depends on nothing but the text.
C16_FirstMatchingEntryWins ==
  /\ [i \in 1..Len(INTENT_PATTERNS) |-> INTENT_PATTERNS[i].intent] = TableOrder
  /\ (call.fn = "detect_intention" /\ returned.kind # "none") =>
       /\ returned.kind = "return"
       /\ returned.value \in Range(TableOrder) \cup {"unknown"}
       /\ returned.value = "unknown" <=>
            \A i \in 1..Len(TableOrder) : ~EntryOccurs(i, call.message)
       /\ \A i \in 1..Len(TableOrder) :
            (EntryOccurs(i, call.message)
             /\ \A d \in 1..(i - 1) : ~EntryOccurs(d, call.message))
            => returned.value = TableOrder[i]

\* a text with a keyword of delete in front of a keyword of create, typed
\* with a capital, gives create
C16_Witness ==
  /\ call.fn = "detect_intention"
  /\ returned.kind = "return"
  /\ call.message = <<"R","e","m","o","v","e"," ","a","d","d">>
  /\ returned.value = "create"

\* C17: extract_files_touched returns at most 10 entries, no entry twice,
\* and every entry is a capture of one of the two patterns in the message.
C17_AtMostTenDistinctTokens ==
  (call.fn = "extract_files_touched" /\ returned.kind # "none") =>
    /\ returned.kind = "return"
    /\ Len(returned.value) <= MaxFilesTouched
    /\ \A i, j \in 1..Len(returned.value) :
         i # j => returned.value[i] # returned.value[j]
    /\ \A i \in 1..Len(returned.value) :
         returned.value[i] \in Range(FindQuoted(call.message, 1))
                                 \cup Range(FindUnquoted(call.message, 1))

\* a message in which more than ten different tokens are matched, some more
\* than once: ten entries are returned
C17_Witness ==
  /\ call.fn = "extract_files_touched"
  /\ returned.kind = "return"
  /\ Cardinality(Range(FoundFiles(call.message))) > MaxFilesTouched
  /\ Len(FoundFiles(call.message))
       > Cardinality(Range(FoundFiles(call.message)))
  /\ Len(returned.value) = MaxFilesTouched

\* the step of _process_file in which stat(), or open(), seek() or
\* readlines(), raised OSError
ReadFailed ==
  /\ warned'
  /\ (pc = "files" /\ todo' # todo) \/ (pc = "open" /\ pc' # "open")

\* C18: when stat() or the read of a file raises OSError, the checkpoints
\* stay as they are, nothing of the file is looped over, the scan goes on
\* with the files that are left (or to the sleep when none is), and the pass
\* after the sleep has every file to scan again, that one included.
C18_UnreadableFileIsSkipped ==
  [][/\ ReadFailed =>
          /\ positions' = positions
          /\ new_lines' = <<>>
          /\ session_events' = session_events
          /\ pc' = (IF todo' # {} THEN "files" ELSE "sleep")
     /\ (pc = "sleep" /\ pc' = "files") => todo' = Paths]_vars

\* in the second pass a file that was read in the first and has grown since
\* could not be read: its checkpoint is where the first pass left it and the
\* other file is still to be scanned
C18_Witness ==
  /\ warned
  /\ now > 0
  /\ pc = "files"
  /\ todo # {} /\ todo # Paths
  /\ file_path \in DOMAIN positions
  /\ positions[file_path] > 0
  /\ positions[file_path] < Len(file[file_path])

\* C19: _http_post and _http_get raise nothing: whatever the remote does
\* (no answer in time, no connection, a status that is no success, a body
\* that is no JSON) they return a dict, and the dict has the key error
\* whenever the request did not succeed.
C19_HelpersReturnErrorDict ==
  (call.fn \in {"_http_post", "_http_get"} /\ returned.kind # "none") =>
    /\ returned.kind = "return"
    /\ returned.value.type = "dict"
    /\ ~Succeeded(call.remote) => "error" \in DOMAIN returned.value.dict

\* C20: noesis_precedent asks the service for the limit clamped to 1..10,
\* lists no more precedents than that, and lists one at least whenever it
\* reports that precedents were found.
C20_ListsWithinClampedLimit ==
  (call.fn = "noesis_precedent" /\ returned.kind = "return") =>
    LET N == IF call.limit < MinPrecedentLimit THEN MinPrecedentLimit
             ELSE IF call.limit > MaxPrecedentLimit THEN MaxPrecedentLimit
             ELSE call.limit
    IN  /\ returned.value.requested = N
        /\ Len(returned.value.listed) <= N
        /\ returned.value.found > 0 => Len(returned.value.listed) >= 1

\* C21: record_session_end returns status ok; its precedent_id is None
\* exactly when files_changed is below 5 and duration_minutes below 30, and
\* is otherwise sess_ followed by the first 8 characters of session_id (all
\* of them when there are fewer).
C21_PrecedentForSignificantSession ==
  (call.fn = "record_session_end" /\ returned.kind # "none") =>
    LET request == call.request
        response == returned.value
        id == request.session_id
    IN  /\ returned.kind = "return"
        /\ response.status = "ok"
        /\ response.precedent_id # None <=>
             (request.files_changed >= 5 \/ request.duration_minutes >= 30)
        /\ response.precedent_id # None =>
             /\ SubSeq(response.precedent_id, 1, 5) = <<"s", "e", "s", "s", "_">>
             /\ SubSeq(response.precedent_id, 6, Len(response.precedent_id))
                  = [i \in 1..(IF Len(id) < 8 THEN Len(id) ELSE 8) |-> id[i]]

\* a session of 30 minutes with 4 files changed and an id of 9 characters
C21_Witness ==
  /\ call.fn = "record_session_end"
  /\ returned.kind = "return"
  /\ call.request.duration_minutes = 30
  /\ call.request.files_changed = 4
  /\ Len(call.request.session_id) = 9
  /\ Len(returned.value.precedent_id) = 13

\* the line loop takes its next line in this step
TakesLine == pc = "lines" /\ new_lines' = Tail(new_lines)

\* the line is a JSON object whose role is not user
OtherRole(raw) ==
  LET entry == json_loads(strip(raw))
  IN  entry.json = "object" /\ entry.role # "user"

\* the reads of a file by the running daemon do not overlap, and the
\* checkpoint is where the last of them ended
ReadOnceInRun ==
  \A path \in Paths :
    LET r == ReadsOfRun(path)
    IN  /\ \A i, j \in 1..Len(r) : i < j => r[i].hi <= r[j].lo
        /\ r # <<>> => Get(positions, path, 0) = r[Len(r)].hi

\* C22: the step of the line loop over a record whose role is not user
\* appends nothing to session_events, starts no dispatch and goes on with
\* the next line; the checkpoint of the file is already at the end of the
\* read the record came in, and no later read of this daemon begins before
\* the end of an earlier one.
C22_OtherRolesAreReadAndDropped ==
  [][/\ (TakesLine /\ OtherRole(Head(new_lines))) =>
          /\ session_events' = session_events
          /\ attempts' = attempts
          /\ positions' = positions
          /\ pc' = Continue(new_lines', todo)
     /\ ReadOnceInRun']_vars

\* a log of an assistant record and a user record, scanned to its end:
\* one entry, one attempt, the checkpoint behind both
C22_Witness ==
  \E path \in Paths :
    /\ pc = "sleep"
    /\ file[path] = Encode(AssistantLine(BodyAB)) \o Encode(UserLine(BodyAB))
    /\ Get(positions, path, 0) = Len(file[path])
    /\ Len(session_events) = 1
    /\ Len(attempts) = 1

\* the reads of a file by the running daemon are in different passes
OneReadPerPass ==
  \A path \in Paths :
    LET r == ReadsOfRun(path)
    IN  \A i, j \in 1..Len(r) : i < j => r[i].at < r[j].at

\* C23: the checkpoint table is written only by the step that reads a file:
\* that step reads from the old checkpoint to the end of the file, sets the
\* checkpoint of that file and no other to the end of the read, and has
\* classified and dispatched nothing of what it read yet; the steps of the
\* line loop and of the dispatch leave the table unchanged; and a file is
\* read, and its checkpoint written, at most once in a pass.
C23_CheckpointWrittenOncePerPass ==
  [][/\ positions' # positions =>
          /\ pc = "open"
          /\ \E r \in {[lo |-> current_pos, hi |-> positions'[file_path],
                        users |-> u, run |-> restarts, at |-> now] :
                         u \in 0..MaxBytes} :
               /\ reads' = [reads EXCEPT ![file_path] = Append(@, r)]
               /\ r.hi = Len(file[file_path])
               /\ r.users = Len(SelectSeq(new_lines', IsUserMessage))
          /\ \A path \in DOMAIN positions \ {file_path} :
               positions'[path] = positions[path]
          /\ session_events' = session_events
          /\ attempts' = attempts
     /\ pc \in {"lines", "send"} => positions' = positions
     /\ OneReadPerPass']_vars

\* a file was read in the first pass and, grown, again in the second: two
\* writes of its checkpoint, two entries, the second pass over
C23_Witness ==
  /\ pc = "sleep"
  /\ \E path \in Paths :
       /\ Len(reads[path]) = 2
       /\ reads[path][1].at = 0
       /\ reads[path][2].at = POLL_INTERVAL_SECONDS
       /\ reads[path][2].users = 1
       /\ positions[path] = reads[path][2].hi
  /\ Len(session_events) = 2

\* the line is valid JSON but no usable record: a JSON value that is no
\* object, or an object of role user whose content is no string
Unusable(raw) ==
  LET entry == json_loads(strip(raw))
  IN  \/ entry.json = "array"
      \/ entry.json = "object" /\ entry.role = "user" /\ entry.ctype # "str"

\* C24: the step of the line loop over a line that is valid JSON but no
\* usable record skips it: nothing is appended to session_events and the
\* scan goes on with the next line, the next file or the sleep.
C24_UnusableRecordIsSkipped ==
  [][(TakesLine /\ Unusable(Head(new_lines))) =>
       /\ session_events' = session_events
       /\ pc' = Continue(new_lines', todo)]_vars

\* the keywords of a table that occur in the lower-cased prompt, in the
\* order of the table
Occurring(keywords, prompt) ==
  LET here == {i \in 1..Len(keywords) :
                 Contains(keywords[i], str_lower(prompt))}
      RECURSIVE InOrder(_)
      InOrder(i) == IF i > Len(keywords) THEN <<>>
                    ELSE (IF i \in here THEN <<keywords[i]>> ELSE <<>>)
                           \o InOrder(i + 1)
  IN  InOrder(1)

\* C25: emergence_reason is None exactly when detected_keywords is empty, and
\* otherwise names the first three detected keywords, or all when there are
\* fewer; detected_keywords holds every match of the scan that ran (the
\* high-risk table, or the medium-risk table when no high-risk keyword
\* occurs) in the order of the table, no keyword twice.
C25_ReasonNamesFirstThree ==
  Analyzed =>
    LET detected == returned.value.detected_keywords
        reason == returned.value.emergence_reason
        n == Len(detected)
        high == Occurring(HIGH_RISK_KEYWORDS, call.prompt)
    IN  /\ reason = None <=> n = 0
        /\ n > 0 =>
             /\ Len(reason) = (IF n < 3 THEN n ELSE 3)
             /\ \A i \in 1..Len(reason) : reason[i] = detected[i]
        /\ detected = (IF high # <<>> THEN high
                       ELSE Occurring(MEDIUM_RISK_KEYWORDS, call.prompt))
        /\ \A i, j \in 1..n : i # j => detected[i] # detected[j]

\* four medium-risk keywords are detected and the reason names three
C25_Witness ==
  /\ Analyzed
  /\ Len(returned.value.detected_keywords) = 4
  /\ returned.value.mode = "subtle"
  /\ returned.value.emergence_reason
       = << <<"a","u","t","h">>,
            <<"d","a","t","a","b","a","s","e">>,
            <<"s","c","h","e","m","a">> >>

\* the pass that is running, or has just ended, has read something
ReadInThisPass == \E path \in Paths : \E i \in 1..Len(reads[path]) :
                    reads[path][i].at = now

\* the pass has appended an entry to session_events
EventInThisPass == \E i \in 1..Len(session_events) :
                     session_events[i].timestamp = now

\* an earlier pass has read the file to the end it has now, or the file is
\* empty
ReadToItsEnd(path) ==
  \/ file[path] = <<>>
  \/ \E i \in 1..Len(reads[path]) :
       /\ reads[path][i].at < now
       /\ reads[path][i].hi = Len(file[path])

\* C26 as stated: no pass after the first one, over logs whose sizes never
\* change, reads anything or appends anything to session_events.
C26_UnchangedFilesPassIsNoOp ==
  now > 0 => (~ReadInThisPass /\ ~EventInThisPass)

\* C26, amended: a pass over logs whose sizes have not changed since a pass
\* that read each of them to its end reads nothing, appends nothing to
\* session_events, starts no dispatch and leaves every checkpoint at the end
\* of its file.
C26_PassOverFilesReadToTheirEndIsNoOp ==
  (now > 0 /\ \A path \in Paths : ReadToItsEnd(path)) =>
    /\ ~ReadInThisPass
    /\ ~EventInThisPass
    /\ pc \in {"files", "sleep"}
    /\ NoDispatchPending
    /\ \A path \in Paths : Get(positions, path, 0) = Len(file[path])

\* the second pass over two logs the first pass read to their end is over:
\* the entries are those of the first pass
C26_Witness ==
  /\ now > 0
  /\ pc = "sleep"
  /\ \A path \in Paths : file[path] # <<>> /\ ReadToItsEnd(path)
  /\ Len(session_events) = 3
  /\ ~EventInThisPass

\* C27: when a pass is over and a log that was only appended to has been
\* read to its end, session_events holds exactly one entry for every user
\* record with a non-empty body that stands complete in the log, whatever
\* the writer's appends, of whole lines or of parts of a line, fell between.
C27_OneEventPerCompleteRecord ==
  \A path \in Paths :
    (/\ pc = "sleep"
     /\ ~shrunk[path]
     /\ Get(positions, path, 0) = Len(file[path])) =>
      ClassifiedOf(ProjectOf(path)) = UserBodies(file[path])

\* a is b with some of its entries left out
RECURSIVE IsSubSeq(_, _)
IsSubSeq(a, b) ==
  IF a = <<>> THEN TRUE
  ELSE IF b = <<>> THEN FALSE
  ELSE IF Head(a) = Head(b) THEN IsSubSeq(Tail(a), Tail(b))
  ELSE IsSubSeq(a, Tail(b))

\* the entries of session_events and the dispatch attempts stand in one order,
\* one attempt for each entry
AttemptsFollowEvents ==
  /\ Len(attempts) = Len(session_events)
  /\ \A i \in 1..Len(attempts) : attempts[i].n = i

\* the entries of one log stand in the order of its records, and an entry of
\* an earlier pass stands before the entries of every later pass
EventsInOrder ==
  /\ \A path \in Paths :
       ~shrunk[path] =>
         IsSubSeq(ClassifiedOf(ProjectOf(path)), UserBodies(file[path]))
  /\ \A i, j \in 1..Len(session_events) :
       i < j => session_events[i].timestamp <= session_events[j].timestamp

\* a step leaves session_events alone or puts one entry at its end
GrowsAtTheEnd ==
  \/ session_events' = session_events
  \/ /\ Len(session_events') = Len(session_events) + 1
     /\ SubSeq(session_events', 1, Len(session_events)) = session_events

\* C28: session_events only grows, at its end; its entries follow the order
\* of the records in their log and the order of the passes; the dispatch
\* attempts are started in the same order, and there are always as many
\* attempts as entries.
C28_EventsAndAttemptsInRecordOrder ==
  /\ [](AttemptsFollowEvents /\ EventsInOrder)
  /\ [][GrowsAtTheEnd]_vars

\* one log with two user messages of different bodies was read in the second
\* pass, after the message of the other log had been read in the first
C28_Witness ==
  /\ pc = "sleep"
  /\ Len(session_events) = 3
  /\ Len(attempts) = 3
  /\ session_events[1].timestamp < session_events[2].timestamp
  /\ \E path \in Paths :
       /\ Len(UserBodies(file[path])) = 2
       /\ UserBodies(file[path])[1] # UserBodies(file[path])[2]
       /\ ClassifiedOf(ProjectOf(path)) = UserBodies(file[path])

\* the helper gave the tool a dict with the key error
HelperFailed ==
  /\ http_post(call.remote).kind = "return"
  /\ http_post(call.remote).value.type = "dict"
  /\ "error" \in DOMAIN http_post(call.remote).value.dict

\* C29: when the helper returns an error dict, each of noesis_consult,
\* noesis_tribunal, noesis_precedent and noesis_confront returns a text,
\* raises nothing, and the text says that the service is unavailable.
C29_FailureIsReportedAsUnavailable ==
  (/\ call.fn \in FallbackTools \cup {"noesis_precedent"}
   /\ returned.kind # "none"
   /\ HelperFailed) =>
    /\ returned.kind = "return"
    /\ returned.value.says_unavailable

\* C30: every keyword of the table decides the result of some text: the
\* text that is the keyword itself is given the intent of the keyword's
\* entry (a text that holds the keyword holds every keyword that is a part
\* of it, so a keyword with a part in an earlier entry decides no text).
C30_EveryKeywordDecides ==
  (call.fn = "detect_intention" /\ returned.kind # "none") =>
    \A i \in 1..Len(INTENT_PATTERNS) :
      call.message \in Range(INTENT_PATTERNS[i].keywords) =>
        returned = Returns(INTENT_PATTERNS[i].intent)

====
